---- MODULE Spec2Model ----
(***************************************************************************)
(* A model of goproxyclient: construction of a proxy chain from a GOPROXY  *)
(* string (New, NewMulti, Parse), the fallback walk every query performs   *)
(* over that chain (Client.loop, multi.loop), the single-proxy operations  *)
(* the walk calls (single.list, .info, .latest, .mod, .zip) and the error  *)
(* classifier IsNotFound.                                                  *)
(*                                                                         *)
(* A Go string is a sequence of atoms.  An atom is "," or "|" (the two     *)
(* separator characters), "/" (the character newSingle trims), or a        *)
(* separator-free, slash-free piece of text such as "direct" or "a".       *)
(* A Go error is the sequence of the layers errors.As visits, outermost    *)
(* first; the nil error is the empty sequence.                             *)
(***************************************************************************)
EXTENDS Integers, Sequences, FiniteSets, TLC

VARIABLES
    toks,      \* the tokens the GOPROXY string is written from
    seps,      \* the separator characters written between them
    goproxy,   \* the GOPROXY string handed to the constructor
    hc,        \* the *http.Client handed to the constructor
    cl,        \* the constructed client
    cerr,      \* the error the constructor returned
    pc,        \* "init", "idle", "call" (a proxy request in flight), "done"
    kind,      \* the query in progress
    args,      \* the query's mod and ver arguments: "ok" or "bad" (escaping fails)
    ctx,       \* the query's context: whether it is canceled, and at which entry it was
    pos,       \* the chain entry whose request is in flight
    res,       \* the query's result variables (canonicalVer/tm/j, versions, rc)
    err,       \* the query's err variable (*errptr); IsNotFound's argument
    trace,     \* the proxy requests made by the query so far, with what each returned
    ctor,      \* the constructor that was called
    isNF,      \* what IsNotFound returned
    parsed,    \* what Parse yielded
    qs,        \* the local variables of the queries running concurrently
    scan,      \* New's local variables while its loops scan the GOPROXY string
    cli        \* the run of the command-line program

vars == <<toks, seps, goproxy, hc, ctor, cl, cerr, pc, kind, args, ctx, pos, res, err,
          trace, isNF, parsed, qs, scan, cli>>

----------------------------------------------------------------------------
\* Bounds of the model.

\* Separators in a GOPROXY string handed to a constructor that is then queried.
MaxSeps == 2
\* Arguments given to a subcommand of the command-line program.
MaxArgs == 2
\* Separators in a GOPROXY string that New scans step by step.
MaxSepsLive == 2
\* Separators in the GOPROXY string of a chain that is queried concurrently.
MaxSepsConc == 1
\* Separators in a GOPROXY string handed to a constructor alone.
MaxSepsNew == 3
\* Wrapping layers around the innermost error handed to IsNotFound.
MaxWrap == 2

----------------------------------------------------------------------------
\* Strings.

Separators == {",", "|"}

\* The tokens GOPROXY strings are written from: the three ignored entries,
\* a proxy URL, and a second proxy URL written with a trailing slash.
Tokens == {<<>>, <<"direct">>, <<"off">>, <<"a">>, <<"b", "/">>}

HttpClients == {"nil", "hc1"}

\* The text of the tokens ts joined by the separators ss.
RECURSIVE Join(_, _)
Join(ts, ss) ==
    IF Len(ts) = 1 THEN ts[1]
    ELSE ts[1] \o <<ss[1]>> \o Join(Tail(ts), Tail(ss))

\* func(r rune) bool { return r == ',' || r == '|' }
IsSeparator(r) == r = "," \/ r = "|"

\* strings.IndexFunc(s, IsSeparator): the 0-based index of the first separator, or -1.
IndexFunc(s) ==
    IF \E k \in 1..Len(s) : IsSeparator(s[k])
    THEN (CHOOSE k \in 1..Len(s) :
              IsSeparator(s[k]) /\ \A j \in 1..(k - 1) : ~IsSeparator(s[j])) - 1
    ELSE -1

\* strings.TrimRight(url, "/")
RECURSIVE TrimRight(_)
TrimRight(url) ==
    IF url # <<>> /\ url[Len(url)] = "/"
    THEN TrimRight(SubSeq(url, 1, Len(url) - 1))
    ELSE url

\* IsIgnored without the "off" case.
IsIgnored_NoOff(part) == part = <<"direct">> \/ part = <<>>

\* case "direct", "off", "":
IsIgnored(part) == part = <<"direct">> \/ part = <<"off">> \/ part = <<>>

DefaultProxy == <<"https:", "/", "/", "proxy.golang.org">>

----------------------------------------------------------------------------
\* Construction.

\* newSingle that makes an http.Client of its own whatever hc is.
newSingle_OwnClient(url, h) ==
    [baseURL |-> TrimRight(url),
     client  |-> "own"]

\* newSingle.  With a nil hc each single gets an http.Client of its own.
newSingle(url, h) ==
    [baseURL |-> TrimRight(url),
     client  |-> IF h = "nil" THEN "own" ELSE h]

NoClient == [type |-> "none"]
Nil == <<>>

\* NewRest without the update of afterAnyErr after a proxy URL (the
\* assignment that follows the append).
RECURSIVE NewRest_StalePolicy(_, _, _, _)
NewRest_StalePolicy(s, h, afterAnyErr, rest) ==
    IF s = <<>> THEN rest
    ELSE LET end == IndexFunc(s) IN
         IF end < 0
         THEN IF IsIgnored(s) THEN rest
              ELSE Append(rest, [client |-> newSingle(s, h), afterAnyErr |-> afterAnyErr])
         ELSE LET part == SubSeq(s, 1, end)
                  pipe == s[end + 1] = "|"
                  tail == SubSeq(s, end + 2, Len(s))
              IN  IF IsIgnored(part)
                  THEN NewRest_StalePolicy(tail, h, pipe, rest)
                  ELSE NewRest_StalePolicy(tail, h, afterAnyErr,
                               Append(rest, [client |-> newSingle(part, h),
                                             afterAnyErr |-> afterAnyErr]))

\* NewRest without the update of afterAnyErr after an ignored entry.
RECURSIVE NewRest_SentinelKeeps(_, _, _, _)
NewRest_SentinelKeeps(s, h, afterAnyErr, rest) ==
    IF s = <<>> THEN rest
    ELSE LET end == IndexFunc(s) IN
         IF end < 0
         THEN IF IsIgnored(s) THEN rest
              ELSE Append(rest, [client |-> newSingle(s, h), afterAnyErr |-> afterAnyErr])
         ELSE LET part == SubSeq(s, 1, end)
                  pipe == s[end + 1] = "|"
                  tail == SubSeq(s, end + 2, Len(s))
              IN  IF IsIgnored(part)
                  THEN NewRest_SentinelKeeps(tail, h, afterAnyErr, rest)
                  ELSE NewRest_SentinelKeeps(tail, h, pipe,
                               Append(rest, [client |-> newSingle(part, h),
                                             afterAnyErr |-> afterAnyErr]))

\* The second loop of New: the entries after the first.
RECURSIVE NewRest(_, _, _, _)
NewRest(s, h, afterAnyErr, rest) ==
    IF s = <<>> THEN rest
    ELSE LET end == IndexFunc(s) IN
         IF end < 0
         THEN IF IsIgnored(s) THEN rest
              ELSE Append(rest, [client |-> newSingle(s, h), afterAnyErr |-> afterAnyErr])
         ELSE LET part == SubSeq(s, 1, end)
                  pipe == s[end + 1] = "|"
                  tail == SubSeq(s, end + 2, Len(s))
              IN  IF IsIgnored(part)
                  THEN NewRest(tail, h, pipe, rest)
                  ELSE NewRest(tail, h, pipe,
                               Append(rest, [client |-> newSingle(part, h),
                                             afterAnyErr |-> afterAnyErr]))

\* NewFirst without the switch that skips an ignored entry before a separator.
RECURSIVE NewFirst_KeepsSentinel(_, _)
NewFirst_KeepsSentinel(s, h) ==
    LET end == IndexFunc(s) IN
    IF end < 0
    THEN IF IsIgnored(s)
         THEN [type |-> "Client", first |-> newSingle(DefaultProxy, h), rest |-> <<>>]
         ELSE [type |-> "Client", first |-> newSingle(s, h), rest |-> <<>>]
    ELSE [type |-> "Client", first |-> newSingle(SubSeq(s, 1, end), h),
          rest |-> NewRest(SubSeq(s, end + 2, Len(s)), h, s[end + 1] = "|", <<>>)]

\* The first loop of New: skip ignored entries up to the first proxy URL.
RECURSIVE NewFirst(_, _)
NewFirst(s, h) ==
    LET end == IndexFunc(s) IN
    IF end < 0
    THEN IF IsIgnored(s)
         THEN [type |-> "Client", first |-> newSingle(DefaultProxy, h), rest |-> <<>>]
         ELSE [type |-> "Client", first |-> newSingle(s, h), rest |-> <<>>]
    ELSE LET part == SubSeq(s, 1, end)
             pipe == s[end + 1] = "|"
             tail == SubSeq(s, end + 2, Len(s))
         IN  IF IsIgnored(part)
             THEN NewFirst(tail, h)
             ELSE [type |-> "Client", first |-> newSingle(part, h),
                   rest |-> NewRest(tail, h, pipe, <<>>)]

New(s, h) == NewFirst(s, h)

\* An error layer: what one error value in an Unwrap chain is.  coded says
\* whether the value has a Code() int method (a CodeErr), code is what it returns.
Layer(coded, code, msg) == [coded |-> coded, code |-> code, msg |-> msg]

\* fmt.Errorf(msg)
Errorf(msg) == <<Layer(FALSE, 0, msg)>>

\* newMultiRest without the entry for what follows the last separator.
RECURSIVE newMultiRest_DropsLast(_, _, _, _)
newMultiRest_DropsLast(s, h, afterAnyErr, rest) ==
    IF s = <<>> THEN rest
    ELSE LET end == IndexFunc(s) IN
         IF end < 0
         THEN rest
         ELSE LET part == SubSeq(s, 1, end)
                  pipe == s[end + 1] = "|"
                  tail == SubSeq(s, end + 2, Len(s))
              IN  IF IsIgnored(part)
                  THEN newMultiRest_DropsLast(tail, h, pipe, rest)
                  ELSE newMultiRest_DropsLast(tail, h, pipe,
                                    Append(rest, [client |-> New(part, h),
                                                  afterAnyErr |-> afterAnyErr]))

\* The second loop of newMulti; newClient is New.
RECURSIVE newMultiRest(_, _, _, _)
newMultiRest(s, h, afterAnyErr, rest) ==
    IF s = <<>> THEN rest
    ELSE LET end == IndexFunc(s) IN
         IF end < 0
         THEN IF IsIgnored(s) THEN rest
              ELSE Append(rest, [client |-> New(s, h), afterAnyErr |-> afterAnyErr])
         ELSE LET part == SubSeq(s, 1, end)
                  pipe == s[end + 1] = "|"
                  tail == SubSeq(s, end + 2, Len(s))
              IN  IF IsIgnored(part)
                  THEN newMultiRest(tail, h, pipe, rest)
                  ELSE newMultiRest(tail, h, pipe,
                                    Append(rest, [client |-> New(part, h),
                                                  afterAnyErr |-> afterAnyErr]))

\* newMultiFirst returning an empty multi, and no error, when it finds no proxy URL.
RECURSIVE newMultiFirst_Lazy(_, _)
newMultiFirst_Lazy(s, h) ==
    LET end == IndexFunc(s) IN
    IF end < 0
    THEN IF IsIgnored(s)
         THEN [client |-> [type |-> "multi", first |-> NoClient, rest |-> <<>>],
               err |-> Nil]
         ELSE [client |-> New(s, h), err |-> Nil]
    ELSE LET part == SubSeq(s, 1, end)
             pipe == s[end + 1] = "|"
             tail == SubSeq(s, end + 2, Len(s))
         IN  IF IsIgnored(part)
             THEN newMultiFirst_Lazy(tail, h)
             ELSE [client |-> [type |-> "multi", first |-> New(part, h),
                               rest |-> newMultiRest(tail, h, pipe, <<>>)],
                   err |-> Nil]

\* The first loop of newMulti.  The result is the pair (Client, error).
RECURSIVE newMultiFirst(_, _)
newMultiFirst(s, h) ==
    LET end == IndexFunc(s) IN
    IF end < 0
    THEN IF IsIgnored(s)
         THEN [client |-> NoClient, err |-> Errorf("no proxy URL found")]
         ELSE [client |-> New(s, h), err |-> Nil]
    ELSE LET part == SubSeq(s, 1, end)
             pipe == s[end + 1] = "|"
             tail == SubSeq(s, end + 2, Len(s))
         IN  IF IsIgnored(part)
             THEN newMultiFirst(tail, h)
             ELSE [client |-> [type |-> "multi", first |-> New(part, h),
                               rest |-> newMultiRest(tail, h, pipe, <<>>)],
                   err |-> Nil]

newMulti(s, h) == newMultiFirst(s, h)

NewMulti(s, h) == newMulti(s, h)

\* ParseFrom without the yield after the loop: no pair for what follows the
\* last separator.
RECURSIVE ParseFrom_NoLastYield(_, _)
ParseFrom_NoLastYield(s, afterAnyErr) ==
    LET end == IndexFunc(s) IN
    IF end < 0
    THEN IF s = <<>> THEN <<>> ELSE <<[val |-> s, afterAnyErr |-> afterAnyErr]>>
    ELSE <<[val |-> SubSeq(s, 1, end), afterAnyErr |-> afterAnyErr]>>
         \o ParseFrom_NoLastYield(SubSeq(s, end + 2, Len(s)), s[end + 1] = "|")

\* ParseFrom with the test of the separator inverted: afterAnyErr after ",".
RECURSIVE ParseFrom_FlagInverted(_, _)
ParseFrom_FlagInverted(s, afterAnyErr) ==
    LET end == IndexFunc(s) IN
    IF end < 0
    THEN <<[val |-> s, afterAnyErr |-> afterAnyErr]>>
    ELSE <<[val |-> SubSeq(s, 1, end), afterAnyErr |-> afterAnyErr]>>
         \o ParseFrom_FlagInverted(SubSeq(s, end + 2, Len(s)), s[end + 1] = ",")

\* Parse: the pairs (string, afterAnyErr) the iterator yields when the
\* consumer takes them all.
RECURSIVE ParseFrom(_, _)
ParseFrom(s, afterAnyErr) ==
    LET end == IndexFunc(s) IN
    IF end < 0
    THEN <<[val |-> s, afterAnyErr |-> afterAnyErr]>>
    ELSE <<[val |-> SubSeq(s, 1, end), afterAnyErr |-> afterAnyErr]>>
         \o ParseFrom(SubSeq(s, end + 2, Len(s)), s[end + 1] = "|")

Parse(s) == ParseFrom(s, FALSE)

\* NewParseRest putting each new entry in front of the entries collected so far.
RECURSIVE NewParseRest_Prepends(_, _, _)
NewParseRest_Prepends(pairs, h, rest) ==
    IF pairs = <<>> THEN rest
    ELSE IF IsIgnored(Head(pairs).val)
         THEN NewParseRest_Prepends(Tail(pairs), h, rest)
         ELSE NewParseRest_Prepends(Tail(pairs), h,
                  <<[client |-> newSingle(Head(pairs).val, h),
                     afterAnyErr |-> Head(pairs).afterAnyErr]>> \o rest)

\* The second loop of the Parse-based New: the pairs left after the first entry.
RECURSIVE NewParseRest(_, _, _)
NewParseRest(pairs, h, rest) ==
    IF pairs = <<>> THEN rest
    ELSE IF IsIgnored(Head(pairs).val)
         THEN NewParseRest(Tail(pairs), h, rest)
         ELSE NewParseRest(Tail(pairs), h,
                           Append(rest, [client |-> newSingle(Head(pairs).val, h),
                                         afterAnyErr |-> Head(pairs).afterAnyErr]))

\* NewParseFirst without the default proxy: when every string is ignored the
\* first entry is made from "direct".
RECURSIVE NewParseFirst_NoDefault(_, _)
NewParseFirst_NoDefault(pairs, h) ==
    IF pairs = <<>>
    THEN [type |-> "Client", first |-> newSingle(<<"direct">>, h), rest |-> <<>>]
    ELSE IF IsIgnored(Head(pairs).val)
         THEN NewParseFirst_NoDefault(Tail(pairs), h)
         ELSE [type |-> "Client", first |-> newSingle(Head(pairs).val, h),
               rest |-> NewParseRest(Tail(pairs), h, <<>>)]

\* The first loop of the Parse-based New.
RECURSIVE NewParseFirst(_, _)
NewParseFirst(pairs, h) ==
    IF pairs = <<>>
    THEN [type |-> "Client", first |-> newSingle(DefaultProxy, h), rest |-> <<>>]
    ELSE IF IsIgnored(Head(pairs).val)
         THEN NewParseFirst(Tail(pairs), h)
         ELSE [type |-> "Client", first |-> newSingle(Head(pairs).val, h),
               rest |-> NewParseRest(Tail(pairs), h, <<>>)]

\* New of the revision that calls Parse.
NewParse(s, h) == NewParseFirst(Parse(s), h)

----------------------------------------------------------------------------
\* Errors.

\* The error of a non-200 response as a plain fmt.Errorf, without the CodeErr.
CodeErr_Plain(code) == Errorf("GET")

\* mid.CodeErr{C: code, Err: fmt.Errorf("GET %s: %s", q, resp.Status)}
CodeErr(code) == <<Layer(TRUE, code, "status")>> \o Errorf("GET")

\* errors.Wrapf(e, msg): nil for a nil e.
Wrapf(e, msg) == IF e = Nil THEN Nil ELSE <<Layer(FALSE, 0, msg)>> \o e

\* A type assertion on e itself in place of errors.As.
AsCodeErr_TopOnly(e) == IF e # <<>> /\ e[1].coded THEN 1 ELSE 0

\* errors.As(e, &codeErr): the 1-based index of the first layer that is a
\* CodeErr, 0 when there is none.
AsCodeErr(e) ==
    IF \E k \in 1..Len(e) : e[k].coded
    THEN CHOOSE k \in 1..Len(e) : e[k].coded /\ \A j \in 1..(k - 1) : ~e[j].coded
    ELSE 0

\* IsNotFound returning true when errors.As finds no CodeErr.
IsNotFound_UncodedToo(e) ==
    LET k == AsCodeErr(e) IN
    e # Nil /\ (k = 0 \/ e[k].code \in {404, 410})

\* IsNotFound(err)
IsNotFound(e) ==
    LET k == AsCodeErr(e) IN
    IF k = 0 THEN FALSE
    ELSE e[k].code = 404 \/ e[k].code = 410

----------------------------------------------------------------------------
\* One proxy: what single's methods make of the proxy's reply.

Kinds == {"info", "latest", "list", "mod", "zip"}

\* What a proxy can answer to one GET.  sent is FALSE when client.Do failed
\* (no response); versions are numbered in semver order.
Bodies(k) ==
    IF k = "list"
    THEN {[t |-> "lines", vs |-> <<2, 1>>, scanErr |-> FALSE],
          [t |-> "lines", vs |-> <<3, 1, 2>>, scanErr |-> FALSE],
          [t |-> "lines", vs |-> <<2, 1>>, scanErr |-> TRUE]}
    ELSE IF k \in {"info", "latest"}
    THEN {[t |-> "json", v |-> "p1"], [t |-> "json", v |-> "p2"], [t |-> "garbled"]}
    ELSE {[t |-> "bytes", v |-> "p1"], [t |-> "bytes", v |-> "p2"]}

NoBody == [t |-> "none"]

Replies(k) ==
    {[sent |-> FALSE, status |-> 0, body |-> NoBody]}
    \cup {[sent |-> TRUE, status |-> c, body |-> NoBody] : c \in {403, 404, 410}}
    \cup {[sent |-> TRUE, status |-> 200, body |-> b] : b \in Bodies(k)}

\* What s.client.Do gets once the request's context is canceled: no response.
Canceled == [sent |-> FALSE, status |-> 0, body |-> [t |-> "canceled"]]

\* The error of s.client.Do, or of http.NewRequestWithContext, when there is
\* no response: the context's error if the context is canceled.
DoErr(reply) == Errorf(IF reply.body.t = "canceled" THEN "context canceled" ELSE "Do")

\* The zero values of a query's result variables.
Zero == [t |-> "zero"]

\* semver.Sort
RECURSIVE Insert(_, _)
Insert(v, sorted) ==
    IF sorted = <<>> THEN <<v>>
    ELSE IF v <= Head(sorted) THEN <<v>> \o sorted
    ELSE <<Head(sorted)>> \o Insert(v, Tail(sorted))

RECURSIVE Sort(_)
Sort(vs) == IF vs = <<>> THEN <<>> ELSE Insert(Head(vs), Sort(Tail(vs)))

\* single.list without the call of semver.Sort.
list_Unsorted(reply) ==
    IF ~reply.sent
    THEN [val |-> Zero, err |-> Wrapf(DoErr(reply), "in GET")]
    ELSE IF reply.status # 200
    THEN [val |-> Zero, err |-> CodeErr(reply.status)]
    ELSE [val |-> [t |-> "versions", vs |-> reply.body.vs],
          err |-> Wrapf(IF reply.body.scanErr THEN Errorf("scan") ELSE Nil,
                        "scanning response")]

\* single.list
list(reply) ==
    IF ~reply.sent
    THEN [val |-> Zero, err |-> Wrapf(DoErr(reply), "in GET")]
    ELSE IF reply.status # 200
    THEN [val |-> Zero, err |-> CodeErr(reply.status)]
    ELSE [val |-> [t |-> "versions", vs |-> Sort(reply.body.vs)],
          err |-> Wrapf(IF reply.body.scanErr THEN Errorf("scan") ELSE Nil,
                        "scanning response")]

\* single.handleInfoRequest, which single.info and single.latest return.
handleInfoRequest(reply) ==
    IF ~reply.sent
    THEN [val |-> Zero, err |-> Wrapf(DoErr(reply), "in GET")]
    ELSE IF reply.status # 200
    THEN [val |-> Zero, err |-> CodeErr(reply.status)]
    ELSE IF reply.body.t = "garbled"
    THEN [val |-> Zero, err |-> Wrapf(Errorf("json"), "unmarshaling response body")]
    ELSE [val |-> [t |-> "info", v |-> reply.body.v], err |-> Nil]

\* single.getContent, which single.mod and single.zip return.
getContent(reply) ==
    IF ~reply.sent
    THEN [val |-> Zero, err |-> Wrapf(DoErr(reply), "in GET")]
    ELSE IF reply.status # 200
    THEN [val |-> Zero, err |-> CodeErr(reply.status)]
    ELSE [val |-> [t |-> "stream", v |-> reply.body.v], err |-> Nil]

\* BodyAfter without the resp.Body.Close() of getContent.
BodyAfter_NoCloseOnStatus(k, reply) ==
    IF ~reply.sent THEN "none"
    ELSE IF k \in {"list", "info", "latest"} THEN "closed"
    ELSE "open"

\* What the method has done with resp.Body when it returns: there is none
\* when there was no response; list and handleInfoRequest defer its Close;
\* getContent closes it for a status other than 200 and returns it otherwise.
BodyAfter(k, reply) ==
    IF ~reply.sent THEN "none"
    ELSE IF k \in {"list", "info", "latest"} THEN "closed"
    ELSE IF reply.status # 200 THEN "closed"
    ELSE "open"

\* s.info, s.latest, s.list, s.mod or s.zip, by the query that calls it.
Method(k, reply) ==
    IF k = "list" THEN list(reply)
    ELSE IF k \in {"info", "latest"} THEN handleInfoRequest(reply)
    ELSE getContent(reply)

\* The closure with := for =: the query's result variables are never assigned.
Closure_DropsVal(prev, ret) == [val |-> prev.val, err |-> ret.err]

\* The closure keeping the first error it saw.
Closure_KeepsFirstErr(prev, ret) ==
    IF prev.err # <<>> /\ ret.err # <<>>
    THEN [val |-> ret.val, err |-> prev.err]
    ELSE ret

\* The closure each query hands to loop, e.g. for Info
\*     canonicalVer, tm, j, err = s.info(ctx, mod, ver)
\* prev holds the result variables and err before the assignment, ret what
\* the method returned; the assignment overwrites them all.
Closure(prev, ret) == ret

----------------------------------------------------------------------------
\* The walk.

\* Entry i of a Client: first for 0, rest[i] after.
SingleAt(c, i) == IF i = 0 THEN c.first ELSE c.rest[i].client

\* Entry i of a multi.
ClientAt(m, i) == IF i = 0 THEN m.first ELSE m.rest[i].client

\* Client.loop without the afterAnyErr test: every edge taken on any error.
ClientLoop_AnyEdge(c, i, e) ==
    IF e = Nil THEN -1
    ELSE IF i >= Len(c.rest) THEN -1
    ELSE i + 1

\* Client.loop without the afterAnyErr test: every edge taken on not-found only.
ClientLoop_NotFoundOnly(c, i, e) ==
    IF e = Nil THEN -1
    ELSE IF i >= Len(c.rest) THEN -1
    ELSE IF ~IsNotFound(e) THEN -1
    ELSE i + 1

\* Client.loop without the return on a nil *errptr.
ClientLoop_NoNilReturn(c, i, e) ==
    IF i >= Len(c.rest) THEN -1
    ELSE IF ~c.rest[i + 1].afterAnyErr /\ ~IsNotFound(e) THEN -1
    ELSE i + 1

\* Client.loop testing the afterAnyErr of the entry that failed, taken as
\* false for the first entry, in place of that of the next entry.
ClientLoop_OwnPolicy(c, i, e) ==
    IF e = Nil THEN -1
    ELSE IF i >= Len(c.rest) THEN -1
    ELSE IF ~(i >= 1 /\ c.rest[i].afterAnyErr) /\ ~IsNotFound(e) THEN -1
    ELSE i + 1

\* Client.loop calling f on the entry it has just called.
ClientLoop_SameEntry(c, i, e) ==
    IF e = Nil THEN -1
    ELSE IF i >= Len(c.rest) THEN -1
    ELSE IF ~c.rest[i + 1].afterAnyErr /\ ~IsNotFound(e) THEN -1
    ELSE i

\* Client.loop, from the return of f on entry i with *errptr = e to the next
\* call of f: the entry it calls next, or -1 when loop returns.
ClientLoop(c, i, e) ==
    IF e = Nil THEN -1
    ELSE IF i >= Len(c.rest) THEN -1
    ELSE IF ~c.rest[i + 1].afterAnyErr /\ ~IsNotFound(e) THEN -1
    ELSE i + 1

\* multi.loop without the afterAnyErr test: every edge taken on any error.
multiLoop_AnyEdge(m, i, e) ==
    IF e = Nil THEN -1
    ELSE IF i >= Len(m.rest) THEN -1
    ELSE i + 1

\* multi.loop, likewise.
multiLoop(m, i, e) ==
    IF e = Nil THEN -1
    ELSE IF i >= Len(m.rest) THEN -1
    ELSE IF ~m.rest[i + 1].afterAnyErr /\ ~IsNotFound(e) THEN -1
    ELSE i + 1

\* The single whose request is in flight.
Current ==
    IF cl.type = "Client" THEN SingleAt(cl, pos.i)
    ELSE SingleAt(ClientAt(cl, pos.i), pos.j)

\* Where the walk goes once the request in flight has returned error e:
\* the next position, or i = -1 when the query returns.
AfterReturn(c, p, e) ==
    IF c.type = "Client"
    THEN [i |-> ClientLoop(c, p.i, e), j |-> 0]
    ELSE LET nj == ClientLoop(ClientAt(c, p.i), p.j, e) IN
         IF nj >= 0 THEN [i |-> p.i, j |-> nj]
         ELSE [i |-> multiLoop(c, p.i, e), j |-> 0]

----------------------------------------------------------------------------
\* Inputs.

\* The GOPROXY strings with at most n separators, as (tokens, separators),
\* written from the tokens ts.
TokenLists(ts, n) == UNION {[1..(m + 1) -> ts] : m \in 0..n}

\* The errors IsNotFound is handed: up to MaxWrap layers around an innermost one.
ErrLayers ==
    {Layer(FALSE, 0, "plain")}
    \cup {Layer(TRUE, c, "status") : c \in {200, 403, 404, 410, 500}}

Errors == UNION {[1..m -> ErrLayers] : m \in 0..(MaxWrap + 1)}

\* The mod and ver arguments before a query is called.
NoArgs == [mod |-> "none", ver |-> "none"]

\* context.Background(): a context that is not canceled.
Background == [canceled |-> FALSE, at |-> -1]

\* The queries that take a version: Info, Mod and Zip.
HasVersion(k) == k \in {"info", "mod", "zip"}

\* The arguments a query can be called with.
Args(k) ==
    {[mod |-> m, ver |-> v] :
        m \in {"ok", "bad"}, v \in IF HasVersion(k) THEN {"ok", "bad"} ELSE {"none"}}

\* Arguments that pass escaping.
ValidArgs(k) == [mod |-> "ok", ver |-> IF HasVersion(k) THEN "ok" ELSE "none"]

\* Escape without the call of module.EscapeVersion.
Escape_PathOnly(k, a) ==
    IF a.mod = "bad"
    THEN Wrapf(Errorf("invalid path"), "escaping module path")
    ELSE Nil

\* module.EscapePath(mod) and, in Info, Mod and Zip, module.EscapeVersion(ver),
\* as the query methods call them before loop: the error returned, nil if none.
Escape(k, a) ==
    IF a.mod = "bad"
    THEN Wrapf(Errorf("invalid path"), "escaping module path")
    ELSE IF HasVersion(k) /\ a.ver = "bad"
    THEN Wrapf(Errorf("invalid version"), "escaping module version")
    ELSE Nil

\* New's local variables at its first loop: goproxy, afterAnyErr, first, rest.
ScanStart(s) ==
    [phase |-> "first", goproxy |-> s, afterAnyErr |-> FALSE,
     first |-> NoClient, rest |-> <<>>]

\* No run of the command-line program.
NoCli == [pc |-> "off"]

\* The queries that run concurrently.
Queries == {1, 2}

\* A query that was not called yet.
Unborn == [pc |-> "idle", kind |-> "none", pos |-> [i |-> 0, j |-> 0],
           res |-> Zero, err |-> Nil, trace |-> <<>>]

NoQueries == [q \in Queries |-> Unborn]

\* The query variables when no query is in progress.
NoQuery ==
    /\ kind = "none"
    /\ args = NoArgs
    /\ ctx = Background
    /\ pos = [i |-> 0, j |-> 0]
    /\ res = Zero
    /\ err = Nil
    /\ trace = <<>>

InitWith(ts, n, hcs) ==
    /\ toks \in TokenLists(ts, n)
    /\ seps \in [1..(Len(toks) - 1) -> Separators]
    /\ goproxy = Join(toks, seps)
    /\ hc \in hcs
    /\ ctor = "none"
    /\ cl = NoClient
    /\ cerr = Nil
    /\ pc = "init"
    /\ NoQuery
    /\ isNF = FALSE
    /\ parsed = <<>>
    /\ qs = NoQueries
    /\ scan = ScanStart(goproxy)
    /\ cli = NoCli

\* The tokens of the chains that are queried: a sentinel and two proxy URLs.
WalkTokens == {<<"direct">>, <<"a">>, <<"b", "/">>}

Init == InitWith(WalkTokens, MaxSeps, {"nil"})

InitNew == InitWith(Tokens, MaxSepsNew, HttpClients)

\* The tokens and the queries of the chains that are queried concurrently.
ConcTokens == {<<"direct">>, <<"a">>}
ConcKinds == {"list", "mod"}

InitConc == InitWith(ConcTokens, MaxSepsConc, {"nil"})

InitLive == InitWith(ConcTokens, MaxSepsLive, {"nil"})

\* What the command line and the environment decide about one argument: its
\* form (MODULE@VERSION or not), whether the query made for it fails, and
\* whether writing its result to stdout fails.
CliArgs ==
    [form : {"ok", "malformed"}, query : {"ok", "fail"}, out : {"ok", "fail"}]

RECURSIVE ArgLists(_)
ArgLists(n) ==
    IF n = 0 THEN {<<>>}
    ELSE ArgLists(n - 1) \cup
         {Append(l, a) : l \in {m \in ArgLists(n - 1) : Len(m) = n - 1}, a \in CliArgs}

\* The process before main runs: GOPROXY is unset or names proxy a, -proxy is
\* absent or names proxy b.
InitCli ==
    /\ toks \in {<<<<>>>>, <<<<"a">>>>}
    /\ seps = <<>>
    /\ goproxy = Join(toks, seps)
    /\ hc = "nil"
    /\ ctor = "none"
    /\ cl = NoClient
    /\ cerr = Nil
    /\ pc = "cli"
    /\ NoQuery
    /\ isNF = FALSE
    /\ parsed = <<>>
    /\ qs = NoQueries
    /\ scan = ScanStart(goproxy)
    /\ \E f \in {<<>>, <<"b", "/">>}, c \in Kinds, as \in ArgLists(MaxArgs) :
           cli = [pc |-> "main", proxyFlag |-> f, cmd |-> c, args |-> as,
                  n |-> 0, queried |-> <<>>, written |-> <<>>,
                  err |-> Nil, exit |-> -1, stderr |-> <<>>]

InitErr ==
    /\ toks = <<<<>>>>
    /\ seps = <<>>
    /\ goproxy = <<>>
    /\ hc = "nil"
    /\ ctor = "none"
    /\ cl = NoClient
    /\ cerr = Nil
    /\ pc = "probe"
    /\ kind = "none"
    /\ args = NoArgs
    /\ ctx = Background
    /\ pos = [i |-> 0, j |-> 0]
    /\ res = Zero
    /\ trace = <<>>
    /\ err \in Errors
    /\ isNF = FALSE
    /\ parsed = <<>>
    /\ qs = NoQueries
    /\ scan = ScanStart(goproxy)
    /\ cli = NoCli

----------------------------------------------------------------------------
\* Actions.

input == <<toks, seps, goproxy, hc>>
query == <<kind, args, ctx, pos, res, err, trace>>
aux   == <<isNF, parsed, qs, scan, cli>>

\* cl := New(goproxy, hc)
CallNew ==
    /\ pc = "init"
    /\ ctor' = "New"
    /\ cl' = New(goproxy, hc)
    /\ cerr' = Nil
    /\ pc' = "idle"
    /\ UNCHANGED <<input, query, aux>>

\* cl := New(goproxy, hc), in the revision whose New calls Parse
CallNewParse ==
    /\ pc = "init"
    /\ ctor' = "NewParse"
    /\ cl' = NewParse(goproxy, hc)
    /\ cerr' = Nil
    /\ pc' = "idle"
    /\ UNCHANGED <<input, query, aux>>

\* cl, err := NewMulti(goproxy, hc)
CallNewMulti ==
    /\ pc = "init"
    /\ ctor' = "NewMulti"
    /\ cl' = NewMulti(goproxy, hc).client
    /\ cerr' = NewMulti(goproxy, hc).err
    /\ pc' = IF NewMulti(goproxy, hc).err = Nil THEN "idle" ELSE "failed"
    /\ UNCHANGED <<input, query, aux>>

\* goproxy = goproxy[end:], which keeps the separator found.
Consume_KeepsSeparator(s, end) == SubSeq(s, end + 1, Len(s))

\* goproxy = goproxy[end+1:]
Consume(s, end) == SubSeq(s, end + 2, Len(s))

\* One iteration of a loop of New, or the test that ends its second loop;
\* the iteration that returns leaves the Client in cl.
ScanStep ==
    /\ pc = "init"
    /\ LET s   == scan.goproxy
           end == IndexFunc(s)
       IN  IF scan.phase = "first"
           THEN IF end < 0
                THEN /\ cl' = [type |-> "Client",
                               first |-> newSingle(IF IsIgnored(s) THEN DefaultProxy ELSE s, hc),
                               rest |-> <<>>]
                     /\ scan' = [scan EXCEPT !.phase = "returned"]
                     /\ pc' = "idle"
                ELSE IF IsIgnored(SubSeq(s, 1, end))
                THEN /\ scan' = [scan EXCEPT !.goproxy = Consume(s, end)]
                     /\ UNCHANGED <<cl, pc>>
                ELSE /\ scan' = [scan EXCEPT !.phase = "rest",
                                             !.first = newSingle(SubSeq(s, 1, end), hc),
                                             !.afterAnyErr = (s[end + 1] = "|"),
                                             !.goproxy = Consume(s, end)]
                     /\ UNCHANGED <<cl, pc>>
           ELSE IF s = <<>>
                THEN /\ cl' = [type |-> "Client", first |-> scan.first, rest |-> scan.rest]
                     /\ scan' = [scan EXCEPT !.phase = "returned"]
                     /\ pc' = "idle"
                ELSE IF end < 0
                THEN /\ cl' = [type |-> "Client", first |-> scan.first,
                               rest |-> IF IsIgnored(s) THEN scan.rest
                                        ELSE Append(scan.rest,
                                                    [client |-> newSingle(s, hc),
                                                     afterAnyErr |-> scan.afterAnyErr])]
                     /\ scan' = [scan EXCEPT !.phase = "returned"]
                     /\ pc' = "idle"
                ELSE IF IsIgnored(SubSeq(s, 1, end))
                THEN /\ scan' = [scan EXCEPT !.afterAnyErr = (s[end + 1] = "|"),
                                             !.goproxy = Consume(s, end)]
                     /\ UNCHANGED <<cl, pc>>
                ELSE /\ scan' = [scan EXCEPT
                                    !.rest = Append(scan.rest,
                                                    [client |-> newSingle(SubSeq(s, 1, end), hc),
                                                     afterAnyErr |-> scan.afterAnyErr]),
                                    !.afterAnyErr = (s[end + 1] = "|"),
                                    !.goproxy = Consume(s, end)]
                     /\ UNCHANGED <<cl, pc>>
    /\ ctor' = "New"
    /\ cerr' = Nil
    /\ UNCHANGED <<input, query, isNF, parsed, qs, cli>>

\* parsed := the (string, afterAnyErr) pairs that Parse(goproxy) yields
CallParse ==
    /\ pc = "init"
    /\ ctor' = "Parse"
    /\ parsed' = Parse(goproxy)
    /\ pc' = "afterParse"
    /\ UNCHANGED <<input, cl, cerr, query, isNF, qs, scan, cli>>

\* cl.Info, cl.Latest, cl.List, cl.Mod or cl.Zip is called: the result
\* variables are declared and loop calls f on the first entry.  This
\* revision sends mod and ver as they are, so whatever they are the proxy
\* answers with one of Replies.
StartQuery(k) ==
    /\ pc = "idle"
    /\ kind' = k
    /\ args' = ValidArgs(k)
    /\ ctx' = Background
    /\ pos' = [i |-> 0, j |-> 0]
    /\ res' = Zero
    /\ err' = Nil
    /\ trace' = <<>>
    /\ pc' = "call"
    /\ UNCHANGED <<input, ctor, cl, cerr, aux>>

\* The same call in the revision that escapes mod and ver first: the method
\* returns the escaping error at once, and calls loop only without one.
StartQueryEscaped(k, a) ==
    /\ pc = "idle"
    /\ kind' = k
    /\ args' = a
    /\ ctx' = Background
    /\ pos' = [i |-> 0, j |-> 0]
    /\ res' = Zero
    /\ err' = Escape(k, a)
    /\ trace' = <<>>
    /\ pc' = IF Escape(k, a) # Nil THEN "done" ELSE "call"
    /\ UNCHANGED <<input, ctor, cl, cerr, aux>>

\* The caller cancels ctx while a request is in flight: s.client.Do gives up
\* the request and returns the context's error, as it does for every later
\* request made with this context.
Cancel ==
    /\ pc = "call"
    /\ ~ctx.canceled
    /\ ctx' = [canceled |-> TRUE, at |-> pos.i]
    /\ UNCHANGED <<input, ctor, cl, cerr, pc, kind, args, pos, res, err, trace, aux>>

\* BackendReturn of a Client that moves the entry that succeeded to the front.
BackendReturn_Promotes ==
    /\ pc = "call"
    /\ \E reply \in (IF ctx.canceled THEN {Canceled} ELSE Replies(kind)) :
          LET ret  == Method(kind, reply)
              out  == Closure([val |-> res, err |-> err], ret)
              next == AfterReturn(cl, pos, out.err)
          IN  /\ res' = out.val
              /\ err' = out.err
              /\ trace' = Append(trace, [i |-> pos.i, j |-> pos.j,
                                         url |-> Current.baseURL, reply |-> reply,
                                         body |-> BodyAfter(kind, reply),
                                         val |-> ret.val, err |-> ret.err])
              /\ cl' = IF out.err = Nil /\ cl.type = "Client" /\ pos.i > 0
                       THEN [cl EXCEPT !.first = cl.rest[pos.i].client,
                                       !.rest[pos.i].client = cl.first]
                       ELSE cl
              /\ IF next.i < 0
                 THEN pc' = "done" /\ pos' = pos
                 ELSE pc' = "call" /\ pos' = next
    /\ UNCHANGED <<input, ctor, cerr, kind, args, ctx, aux>>

\* The request in flight returns: the closure assigns the result variables
\* and err, and loop runs on to its next call of f or to its return.
BackendReturn ==
    /\ pc = "call"
    /\ \E reply \in (IF ctx.canceled THEN {Canceled} ELSE Replies(kind)) :
          LET ret  == Method(kind, reply)
              out  == Closure([val |-> res, err |-> err], ret)
              next == AfterReturn(cl, pos, out.err)
          IN  /\ res' = out.val
              /\ err' = out.err
              /\ trace' = Append(trace, [i |-> pos.i, j |-> pos.j,
                                         url |-> Current.baseURL, reply |-> reply,
                                         body |-> BodyAfter(kind, reply),
                                         val |-> ret.val, err |-> ret.err])
              /\ IF next.i < 0
                 THEN pc' = "done" /\ pos' = pos
                 ELSE pc' = "call" /\ pos' = next
    /\ UNCHANGED <<input, ctor, cl, cerr, kind, args, ctx, aux>>

\* The query method returns res and err to its caller.
Finish ==
    /\ pc = "done"
    /\ pc' = "idle"
    /\ kind' = "none"
    /\ args' = NoArgs
    /\ ctx' = Background
    /\ pos' = [i |-> 0, j |-> 0]
    /\ res' = Zero
    /\ err' = Nil
    /\ trace' = <<>>
    /\ UNCHANGED <<input, ctor, cl, cerr, aux>>

\* Query q, one of those that run concurrently on cl, is called.
QStart(q, k) ==
    /\ pc = "idle"
    /\ qs[q].pc = "idle"
    /\ qs' = [qs EXCEPT ![q] = [pc |-> "call", kind |-> k, pos |-> [i |-> 0, j |-> 0],
                                res |-> Zero, err |-> Nil, trace |-> <<>>]]
    /\ UNCHANGED <<input, ctor, cl, cerr, pc, query, isNF, parsed, scan, cli>>

\* QReturn with one err variable for all queries, that of query 1, which
\* the loop of every query tests.
QReturn_SharedErr(q) ==
    /\ qs[q].pc = "call"
    /\ \E reply \in Replies(qs[q].kind) :
          LET me   == qs[q]
              ret  == Method(me.kind, reply)
              out  == Closure([val |-> me.res, err |-> me.err], ret)
              next == AfterReturn(cl, me.pos, IF q = 1 THEN out.err ELSE qs[1].err)
          IN  qs' = [qs EXCEPT ![q] =
                        [pc    |-> IF next.i < 0 THEN "done" ELSE "call",
                         kind  |-> me.kind,
                         pos   |-> IF next.i < 0 THEN me.pos ELSE next,
                         res   |-> out.val,
                         err   |-> out.err,
                         trace |-> Append(me.trace, [i |-> me.pos.i, reply |-> reply,
                                                     val |-> ret.val, err |-> ret.err])]]
    /\ UNCHANGED <<input, ctor, cl, cerr, pc, query, isNF, parsed, scan, cli>>

\* The request in flight of query q returns: its closure assigns the result
\* variables and err of this call of the query method, and its loop runs on.
QReturn(q) ==
    /\ qs[q].pc = "call"
    /\ \E reply \in Replies(qs[q].kind) :
          LET me   == qs[q]
              ret  == Method(me.kind, reply)
              out  == Closure([val |-> me.res, err |-> me.err], ret)
              next == AfterReturn(cl, me.pos, out.err)
          IN  qs' = [qs EXCEPT ![q] =
                        [pc    |-> IF next.i < 0 THEN "done" ELSE "call",
                         kind  |-> me.kind,
                         pos   |-> IF next.i < 0 THEN me.pos ELSE next,
                         res   |-> out.val,
                         err   |-> out.err,
                         trace |-> Append(me.trace, [i |-> me.pos.i, reply |-> reply,
                                                     val |-> ret.val, err |-> ret.err])]]
    /\ UNCHANGED <<input, ctor, cl, cerr, pc, query, isNF, parsed, scan, cli>>

\* isNF := IsNotFound(err)
CallIsNotFound ==
    /\ pc = "probe"
    /\ isNF' = IsNotFound(err)
    /\ pc' = "probed"
    /\ UNCHANGED <<input, ctor, cl, cerr, query, parsed, qs, scan, cli>>

Next ==
    \/ CallNew
    \/ CallNewMulti
    \/ \E k \in Kinds : StartQuery(k)
    \/ BackendReturn
    \/ Cancel
    \/ Finish

NextNew ==
    \/ CallNew
    \/ CallNewMulti
    \/ CallNewParse
    \/ CallParse

\* run, up to the call of the subcommand: the chain is built from -proxy, else
\* from GOPROXY, else from the default proxy.
CliRun ==
    /\ pc = "cli"
    /\ cli.pc = "main"
    /\ LET env == IF goproxy = <<>> THEN DefaultProxy ELSE goproxy
           s   == IF cli.proxyFlag = <<>> THEN env ELSE cli.proxyFlag
       IN  cl' = New(s, "nil")
    /\ ctor' = "New"
    /\ cli' = [cli EXCEPT !.pc = "subcmd"]
    /\ UNCHANGED <<input, cerr, pc, query, isNF, parsed, qs, scan>>

\* The error, if any, with which the step of subcommand c for its i-th
\* argument a ends, in the order in which the code makes its tests.
StepErr(c, a, i) ==
    IF c \in {"info", "mod", "zip"} /\ a.form = "malformed"
    THEN <<[what |-> "form", arg |-> i]>>
    ELSE IF a.query = "fail"
    THEN <<[what |-> "query", arg |-> i]>>
    ELSE IF c # "list" /\ a.out = "fail"
    THEN <<[what |-> "write", arg |-> i]>>
    ELSE Nil

\* Whether the step for argument a calls the client, and whether it writes.
StepQueries(c, a) == ~(c \in {"info", "mod", "zip"} /\ a.form = "malformed")
StepWrites(c, a) == StepQueries(c, a) /\ a.query = "ok"

\* One iteration of the loop of info, latest or list, or its return after
\* the last argument.
CliLoopStep ==
    /\ pc = "cli"
    /\ cli.pc = "subcmd"
    /\ cli.cmd \in {"info", "latest", "list"}
    /\ IF cli.n = Len(cli.args)
       THEN cli' = [cli EXCEPT !.pc = "returned"]
       ELSE LET i == cli.n + 1
                a == cli.args[i]
                e == StepErr(cli.cmd, a, i)
            IN  cli' = [cli EXCEPT
                          !.n = i,
                          !.queried = IF StepQueries(cli.cmd, a) THEN Append(@, i) ELSE @,
                          !.written = IF StepWrites(cli.cmd, a) THEN Append(@, i) ELSE @,
                          !.err = e,
                          !.pc = IF e = Nil THEN "subcmd" ELSE "returned"]
    /\ UNCHANGED <<input, ctor, cl, cerr, pc, query, isNF, parsed, qs, scan>>

\* mod or zip, whole: exactly one argument, in MODULE@VERSION form, queried
\* and copied to stdout.
CliOneStep ==
    /\ pc = "cli"
    /\ cli.pc = "subcmd"
    /\ cli.cmd \in {"mod", "zip"}
    /\ IF Len(cli.args) # 1
       THEN cli' = [cli EXCEPT !.err = <<[what |-> "count", arg |-> 0]>>,
                               !.pc = "returned"]
       ELSE LET a == cli.args[1]
            IN  cli' = [cli EXCEPT
                          !.n = 1,
                          !.queried = IF StepQueries(cli.cmd, a) THEN <<1>> ELSE <<>>,
                          !.written = IF StepWrites(cli.cmd, a) THEN <<1>> ELSE <<>>,
                          !.err = StepErr(cli.cmd, a, 1),
                          !.pc = "returned"]
    /\ UNCHANGED <<input, ctor, cl, cerr, pc, query, isNF, parsed, qs, scan>>

\* main, after run returns: an error is printed to stderr and the process
\* exits with 1; without one main returns and the process exits with 0.
CliMain ==
    /\ pc = "cli"
    /\ cli.pc = "returned"
    /\ cli' = [cli EXCEPT
                 !.pc = "exited",
                 !.stderr = IF cli.err # Nil THEN <<"Error: ">> \o cli.err ELSE <<>>,
                 !.exit = IF cli.err # Nil THEN 1 ELSE 0]
    /\ UNCHANGED <<input, ctor, cl, cerr, pc, query, isNF, parsed, qs, scan>>

NextEsc ==
    \/ CallNewParse
    \/ \E k \in Kinds : \E a \in Args(k) : StartQueryEscaped(k, a)
    \/ BackendReturn
    \/ Cancel
    \/ Finish

NextErr == CallIsNotFound

NextCli ==
    \/ CliRun
    \/ CliLoopStep
    \/ CliOneStep
    \/ CliMain

NextLive ==
    \/ ScanStep
    \/ \E k \in Kinds : StartQuery(k)
    \/ BackendReturn
    \/ Cancel
    \/ Finish

NextConc ==
    \/ CallNew
    \/ \E q \in Queries : \E k \in ConcKinds : QStart(q, k)
    \/ \E q \in Queries : QReturn(q)

\* A constructor, then queries one after another.
Spec == Init /\ [][Next]_vars

\* The revision whose New calls Parse and whose queries escape mod and ver.
SpecEsc == Init /\ [][NextEsc]_vars

\* A constructor, or Parse, alone, on longer GOPROXY strings.
SpecNew == InitNew /\ [][NextNew]_vars

\* IsNotFound alone.
SpecErr == InitErr /\ [][NextErr]_vars

\* New run loop iteration by loop iteration, then queries.  New goes on
\* running until it returns, and every request made returns.
SpecLive == InitLive /\ [][NextLive]_vars /\ WF_vars(ScanStep) /\ WF_vars(BackendReturn)

\* One run of the command-line program.
SpecCli == InitCli /\ [][NextCli]_vars

\* New, then two queries whose requests interleave.
SpecConc == InitConc /\ [][NextConc]_vars

----------------------------------------------------------------------------
\* Vocabulary of the properties.

SentinelTokens == {<<>>, <<"direct">>, <<"off">>}

\* The address a token names: the token without trailing slashes.
Address(tok) == IF tok = <<"b", "/">> THEN <<"b">> ELSE tok

\* The positions in toks of the tokens that are not sentinels, in order.
RECURSIVE LiveFrom(_)
LiveFrom(k) ==
    IF k > Len(toks) THEN <<>>
    ELSE (IF toks[k] \in SentinelTokens THEN <<>> ELSE <<k>>) \o LiveFrom(k + 1)

Live == LiveFrom(1)

\* A query is in progress or has just ended.
InQuery == pc \in {"call", "done"}

\* Entry k's request has been made in this query (answered or in flight).
Attempted(k) ==
    \/ \E n \in 1..Len(trace) : trace[n].i = k
    \/ pc = "call" /\ pos.i = k

\* The n-th request of the query was answered with status c.
Answered(n, c) == Len(trace) >= n /\ trace[n].reply.sent /\ trace[n].reply.status = c

\* The n-th request of the query failed.
Failed(n) == Len(trace) >= n /\ trace[n].err # <<>>

\* The GOPROXY string is "A,B", "A|B" for two proxy URLs A and B.
TwoEntries(sep) ==
    /\ Len(toks) = 2
    /\ toks[1] \notin SentinelTokens
    /\ toks[2] \notin SentinelTokens
    /\ seps = <<sep>>

\* The GOPROXY string is "A,B|C" for three proxy URLs.
CommaPipe ==
    /\ Len(toks) = 3
    /\ \A k \in 1..3 : toks[k] \notin SentinelTokens
    /\ seps = <<",", "|">>

----------------------------------------------------------------------------
\* C1: in a query on a chain built from "A,B", whatever the query: when A's
\* request fails with status 404 or 410, B's request is made; when A's
\* request fails with status 403, B's request is never made and the query
\* returns that 403 error.
C1_CommaEdge ==
    (InQuery /\ TwoEntries(",") /\ Len(trace) >= 1) =>
        /\ trace[1].i = 0
        /\ (Answered(1, 404) \/ Answered(1, 410)) => Attempted(1)
        /\ Answered(1, 403) =>
              /\ ~Attempted(1)
              /\ pc = "done"
              /\ err = trace[1].err
              /\ err[1].coded /\ err[1].code = 403

C1_Witness ==
    /\ pc = "done" /\ TwoEntries(",") /\ kind = "zip"
    /\ Answered(1, 403) /\ Len(trace) = 1

\* C2: in a query on a chain built from "A|B", whatever the query: whenever
\* A's request fails, with a status or without one, B's request is made.
C2_PipeEdge ==
    (InQuery /\ TwoEntries("|") /\ Failed(1)) => (trace[1].i = 0 /\ Attempted(1))

C2_Witness ==
    /\ pc = "done" /\ TwoEntries("|") /\ kind = "latest"
    /\ Failed(1) /\ ~trace[1].reply.sent /\ Len(trace) = 2 /\ trace[2].i = 1

\* C3: in a query on a chain built from "A,B|C": when A fails with 404, B's
\* request is made; when B then fails with any error, C's request is made;
\* and when C succeeds the query returns C's result and a nil error.
C3_CommaThenPipe ==
    (InQuery /\ CommaPipe) =>
        /\ Answered(1, 404) => Attempted(1)
        /\ (Answered(1, 404) /\ Failed(2)) => (trace[2].i = 1 /\ Attempted(2))
        /\ (pc = "done" /\ Len(trace) = 3 /\ trace[3].err = <<>>) =>
              /\ trace[3].i = 2
              /\ err = <<>>
              /\ res = trace[3].val
              /\ res # Zero

C3_Witness ==
    /\ pc = "done" /\ CommaPipe /\ Answered(1, 404)
    /\ Failed(2) /\ ~trace[2].reply.sent
    /\ Len(trace) = 3 /\ trace[3].err = <<>> /\ err = <<>>

\* C4: once a request returns success the walk is over: it is the last
\* request of the query, whatever the policies of the later edges.
C4_SuccessEndsWalk ==
    \A n \in 1..Len(trace) :
        trace[n].err = <<>> => (n = Len(trace) /\ pc = "done")

C4_Witness ==
    /\ pc = "done" /\ Len(trace) = 1 /\ trace[1].err = <<>>
    /\ cl.type = "Client" /\ Len(cl.rest) = 2
    /\ cl.rest[1].afterAnyErr /\ cl.rest[2].afterAnyErr

\* What a proxy's answer holds, in the shape the query returns it.
Produced(k, reply) ==
    IF k = "list" THEN [t |-> "versions", vs |-> Sort(reply.body.vs)]
    ELSE IF k \in {"info", "latest"} THEN [t |-> "info", v |-> reply.body.v]
    ELSE [t |-> "stream", v |-> reply.body.v]

\* C5: a query that returns a nil error returns the values the last entry it
\* tried produced from its proxy's 200 answer, and every earlier entry failed.
C5_FirstSuccessVerbatim ==
    (pc = "done" /\ err = <<>>) =>
        LET last == trace[Len(trace)] IN
        /\ last.reply.sent /\ last.reply.status = 200
        /\ res = Produced(kind, last.reply)
        /\ res = last.val
        /\ \A n \in 1..(Len(trace) - 1) : trace[n].err # <<>>

C5_Witness ==
    /\ pc = "done" /\ err = <<>> /\ kind = "info"
    /\ toks = <<<<"a">>, <<"b", "/">>>> /\ seps = <<",">>
    /\ Len(trace) = 2 /\ Answered(1, 404)
    /\ res = [t |-> "info", v |-> "p2"]

\* C6: a query that returns an error returns the error of the last request
\* it made, whether the chain was exhausted or the walk stopped at a comma edge.
C6_LastErrorReturned ==
    (pc = "done" /\ err # <<>>) =>
        LET last == trace[Len(trace)] IN
        /\ err = last.err
        /\ (last.reply.sent /\ last.reply.status # 200) =>
              (err[1].coded /\ err[1].code = last.reply.status)
        /\ ~last.reply.sent => \A k \in 1..Len(err) : ~err[k].coded

C6_Witness ==
    /\ pc = "done" /\ err # <<>> /\ Len(trace) = 3
    /\ Answered(1, 404) /\ Answered(2, 410) /\ Answered(3, 403)

\* C7: the afterAnyErr flag of every entry after the first is TRUE exactly
\* when the separator written just before its token is "|", however many
\* sentinel tokens lie between it and the entry before.
C7_PolicyFromPrecedingSeparator ==
    (pc = "idle" /\ Len(Live) >= 1) =>
        /\ Len(cl.rest) = Len(Live) - 1
        /\ \A n \in 2..Len(Live) :
              cl.rest[n - 1].afterAnyErr = (seps[Live[n] - 1] = "|")

C7_Witness ==
    /\ pc = "idle" /\ ctor = "New"
    /\ toks = <<<<"a">>, <<"direct">>, <<>>, <<"b", "/">>>>
    /\ seps = <<"|", "|", ",">>
    /\ cl.rest[1].afterAnyErr = FALSE

\* C8: IsNotFound(err) is TRUE exactly when err has a status code, its own
\* or that of the first error in its chain that has one, and the code is 404
\* or 410; it is FALSE for nil and for an error without a status code.
C8_IsNotFound ==
    pc = "probed" =>
        isNF = (\E k \in 1..Len(err) :
                    /\ err[k].coded
                    /\ \A j \in 1..(k - 1) : ~err[j].coded
                    /\ err[k].code \in {404, 410})

C8_Witness ==
    /\ pc = "probed" /\ isNF
    /\ Len(err) = 3 /\ ~err[1].coded /\ err[2].coded /\ err[2].code = 410

\* C9: for a GOPROXY string of sentinel tokens only, New (either revision)
\* returns the one-entry chain of the default proxy, and NewMulti returns
\* the error "no proxy URL found" and no client.
C9_OnlySentinels ==
    (pc # "init" /\ \A k \in 1..Len(toks) : toks[k] \in SentinelTokens) =>
        /\ ctor \in {"New", "NewParse"} =>
              /\ cl.type = "Client"
              /\ cl.first.baseURL = <<"https:", "/", "/", "proxy.golang.org">>
              /\ cl.rest = <<>>
              /\ cerr = <<>>
        /\ ctor = "NewMulti" =>
              /\ cl = [type |-> "none"]
              /\ Len(cerr) = 1 /\ cerr[1].msg = "no proxy URL found"
              /\ pc = "failed"

C9_Witness ==
    /\ pc = "failed" /\ ctor = "NewMulti"
    /\ toks = <<<<"off">>, <<>>, <<"direct">>, <<"off">>>>

\* C10: a GOPROXY string of sentinel tokens followed by one proxy URL B
\* builds the chain that B alone builds, B its only entry, and every request
\* of a query on it goes to B.
C10_SentinelsBeforeB ==
    (pc # "init"
        /\ toks[Len(toks)] \notin SentinelTokens
        /\ \A k \in 1..(Len(toks) - 1) : toks[k] \in SentinelTokens) =>
        /\ cl = New(toks[Len(toks)], hc)
        /\ cl.type = "Client"
        /\ cl.first.baseURL = Address(toks[Len(toks)])
        /\ cl.rest = <<>>
        /\ Len(trace) <= 1
        /\ \A n \in 1..Len(trace) : trace[n].url = Address(toks[Len(toks)])
        /\ pc = "call" => (pos.i = 0 /\ Current.baseURL = Address(toks[Len(toks)]))

C10_Witness ==
    /\ pc = "done" /\ ctor = "New"
    /\ toks = <<<<"direct">>, <<"b", "/">>>> /\ seps = <<",">>
    /\ Len(trace) = 1 /\ trace[1].url = <<"b">>

\* The proxy address of entry i of chain c.
EntryAddress(c, i) ==
    IF c.type = "Client" THEN SingleAt(c, i).baseURL ELSE ClientAt(c, i).first.baseURL

\* The proxy addresses of the constructed chain, first entry first.
ChainAddresses == [n \in 1..(Len(cl.rest) + 1) |-> EntryAddress(cl, n - 1)]

\* C11 as written: the addresses of every constructed chain are the
\* non-sentinel tokens of the GOPROXY string, as written, in their order.
C11_AddressesAreLiveTokens ==
    pc = "idle" => ChainAddresses = [n \in 1..Len(Live) |-> toks[Live[n]]]

\* C11: when the GOPROXY string has a non-sentinel token, the addresses of
\* the constructed chain are its non-sentinel tokens without their trailing
\* slashes, one entry for each, in the order they are written; every entry
\* of a chain built by NewMulti is one proxy.
C11_AddressesInOrder ==
    (pc = "idle" /\ Len(Live) >= 1) =>
        /\ ChainAddresses = [n \in 1..Len(Live) |-> Address(toks[Live[n]])]
        /\ cl.type = "multi" =>
              \A i \in 0..Len(cl.rest) : ClientAt(cl, i).rest = <<>>

C11_Witness ==
    /\ pc = "idle" /\ ctor = "NewParse"
    /\ toks = <<<<"a">>, <<"direct">>, <<"b", "/">>, <<"a">>>>
    /\ ChainAddresses = <<<<"a">>, <<"b">>, <<"a">>>>

\* C12: Parse yields one pair for each token written, empty strings and
\* sentinels included, in the order written: k separators give k + 1 pairs;
\* the first pair has afterAnyErr FALSE and every later pair has afterAnyErr
\* TRUE exactly when the separator written before its token is "|".
C12_ParseTokenizes ==
    pc = "afterParse" =>
        /\ Len(parsed) = Len(seps) + 1
        /\ Len(parsed) = Len(toks)
        /\ \A n \in 1..Len(parsed) :
              /\ parsed[n].val = toks[n]
              /\ parsed[n].afterAnyErr = (n > 1 /\ seps[n - 1] = "|")

C12_Witness ==
    /\ pc = "afterParse"
    /\ toks = <<<<"direct">>, <<>>, <<"a">>, <<>>>>
    /\ seps = <<"|", ",", "|">>
    /\ parsed = <<[val |-> <<"direct">>, afterAnyErr |-> FALSE],
                  [val |-> <<>>, afterAnyErr |-> TRUE],
                  [val |-> <<"a">>, afterAnyErr |-> FALSE],
                  [val |-> <<>>, afterAnyErr |-> TRUE]>>

\* C13: in a query the n-th request goes to entry n - 1, so that no entry is
\* called twice and the entries are called in the order of the chain from
\* entry 0; the request in flight is the only one and goes to the entry after
\* those that have returned, all of which returned an error.
C13_OneAtATimeInOrder ==
    InQuery =>
        /\ Len(trace) <= Len(cl.rest) + 1
        /\ \A n \in 1..Len(trace) : trace[n].i = n - 1
        /\ \A n \in 1..(Len(trace) - 1) : trace[n].err # Nil
        /\ pc = "call" =>
              /\ pos.i = Len(trace)
              /\ pos.i <= Len(cl.rest)
              /\ \A n \in 1..Len(trace) : trace[n].err # Nil

C13_Witness ==
    /\ pc = "call" /\ pos.i = 2 /\ Len(trace) = 2
    /\ trace[1].i = 0 /\ trace[2].i = 1
    /\ Failed(1) /\ Failed(2)

\* The error a request returns when its context is canceled.
CanceledErr == Wrapf(Errorf("context canceled"), "in GET")

\* C14 as written: once the context is canceled during the request to entry
\* i, no entry after i is called, whatever the separators, and the query
\* returns the cancellation error, which is not not-found.
C14_NoEntryAfterCancel ==
    (InQuery /\ ctx.canceled) =>
        /\ \A k \in (ctx.at + 1)..Len(cl.rest) : ~Attempted(k)
        /\ pc = "done" => (err = CanceledErr /\ ~IsNotFound(err))

\* C14: once the context is canceled during the request to entry i, that
\* request and every later one of the query return the cancellation error,
\* which has no status code and is not not-found; an entry after i is called
\* only over "|" edges, the walk ends at the first "," edge or at the end of
\* the chain, and the query returns the cancellation error.
C14_CancelFollowsPipeEdges ==
    (InQuery /\ ctx.canceled) =>
        /\ \A n \in 1..Len(trace) :
              trace[n].i >= ctx.at =>
                  /\ trace[n].reply = Canceled
                  /\ trace[n].val = Zero
                  /\ trace[n].err = CanceledErr
        /\ ~IsNotFound(CanceledErr)
        /\ \A k \in 1..Len(CanceledErr) : ~CanceledErr[k].coded
        /\ \A k \in (ctx.at + 1)..Len(cl.rest) :
              /\ Attempted(k) => \A m \in (ctx.at + 1)..k : cl.rest[m].afterAnyErr
              /\ (pc = "done" /\ \A m \in (ctx.at + 1)..k : cl.rest[m].afterAnyErr)
                    => Attempted(k)
        /\ pc = "done" => (res = Zero /\ err = CanceledErr)

C14_Witness ==
    /\ pc = "done" /\ ctx.canceled /\ ctx.at = 0
    /\ seps = <<"|", ",">> /\ Len(cl.rest) = 2
    /\ Len(trace) = 2 /\ trace[2].i = 1
    /\ err = CanceledErr

\* An error none of whose layers has a status code.
Uncoded(e) == e # Nil /\ \A k \in 1..Len(e) : ~e[k].coded

\* The error is what a query returns when escaping mod or ver fails.
IsInputFailure(e) ==
    /\ Len(e) = 2
    /\ e[1].msg \in {"escaping module path", "escaping module version"}

\* C15 as written: after a failure without a status code, of a request or
\* of escaping mod or ver, the next entry is called exactly when the edge to
\* it is "|"; for a failure of escaping the next entry is entry 1.
C15_UncodedFailureEdges ==
    InQuery =>
        /\ \A n \in 1..Len(trace) :
              (Uncoded(trace[n].err) /\ n <= Len(cl.rest)) =>
                  (Attempted(n) <=> cl.rest[n].afterAnyErr)
        /\ (pc = "done" /\ IsInputFailure(err) /\ Len(cl.rest) >= 1) =>
              (Attempted(1) <=> cl.rest[1].afterAnyErr)

\* C15: after a request fails without a status code, the next entry is
\* called exactly when the edge to it is "|"; a failure of escaping mod or
\* ver ends the query with no entry called, whatever the edges.
C15_TransportFailureEdges ==
    InQuery =>
        /\ \A n \in 1..Len(trace) :
              (Uncoded(trace[n].err) /\ n <= Len(cl.rest)) =>
                  (Attempted(n) <=> cl.rest[n].afterAnyErr)
        /\ IsInputFailure(err) =>
              (pc = "done" /\ Uncoded(err) /\ \A k \in 0..Len(cl.rest) : ~Attempted(k))

C15_Witness ==
    /\ pc = "done" /\ seps = <<"|", ",">> /\ Len(cl.rest) = 2
    /\ Len(trace) = 2
    /\ ~trace[1].reply.sent /\ ~trace[2].reply.sent
    /\ Uncoded(trace[1].err) /\ Uncoded(err)
    /\ ~ctx.canceled

\* C16: a query whose mod fails escaping, or whose ver does in Info, Mod and
\* Zip, returns the escaping error and zero values with no request made to
\* any entry; the error has no status code and names what failed to escape,
\* mod before ver.
C16_InputFailureBeforeWalk ==
    (InQuery /\ (args.mod = "bad" \/ args.ver = "bad")) =>
        /\ pc = "done"
        /\ trace = <<>>
        /\ \A k \in 0..Len(cl.rest) : ~Attempted(k)
        /\ res = Zero
        /\ Uncoded(err) /\ ~IsNotFound(err)
        /\ err[1].msg = IF args.mod = "bad" THEN "escaping module path"
                        ELSE "escaping module version"

C16_Witness ==
    /\ pc = "done" /\ kind = "zip"
    /\ args = [mod |-> "ok", ver |-> "bad"]
    /\ Len(cl.rest) = 2
    /\ trace = <<>> /\ IsInputFailure(err)

\* C17: a request answered with a status other than 200 returns zero values
\* and an error that is a CodeErr whose code is that status; a request that
\* fails with no response, or on reading or decoding a 200 response, returns
\* an error none of whose layers has a status code.
C17_StatusCodedErrors ==
    \A n \in 1..Len(trace) :
        LET t == trace[n] IN
        /\ (t.reply.sent /\ t.reply.status # 200) =>
              /\ t.err # Nil
              /\ t.err[1].coded /\ t.err[1].code = t.reply.status
              /\ t.val = Zero
        /\ (t.err # Nil /\ (~t.reply.sent \/ t.reply.status = 200)) => Uncoded(t.err)
        /\ ~t.reply.sent => t.err # Nil

C17_Witness ==
    /\ pc = "done" /\ Len(trace) = 3
    /\ Answered(1, 410) /\ trace[1].err[1].code = 410
    /\ ~trace[2].reply.sent
    /\ Answered(3, 200) /\ Uncoded(trace[3].err)

\* No layer of the error is the error of newMulti.
NotConfig(e) == \A k \in 1..Len(e) : e[k].msg # "no proxy URL found"

\* C18: the error "no proxy URL found" is returned by the constructor alone:
\* when NewMulti returns it there is no chain and no query runs on it, a
\* chain NewMulti did return has a proxy, and neither a request nor a query
\* on a constructed chain returns that error.
C18_ConfigFailureOnlyAtConstruction ==
    /\ cerr # Nil => (pc = "failed" /\ ctor = "NewMulti" /\ cl = NoClient /\ trace = <<>>)
    /\ (pc \in {"idle", "call", "done"}) =>
          /\ cerr = Nil
          /\ cl # NoClient
          /\ ctor = "NewMulti" => Len(Live) >= 1
          /\ NotConfig(err)
          /\ \A n \in 1..Len(trace) : NotConfig(trace[n].err)

C18_Witness ==
    /\ pc = "done" /\ ctor = "NewMulti"
    /\ toks = <<<<"direct">>, <<"a">>, <<"b", "/">>>>
    /\ Len(trace) = 2 /\ err # Nil /\ NotConfig(err)

\* The answers the proxies gave to the requests of the query, in order.
Answers == [n \in 1..Len(trace) |-> trace[n].reply]

\* What a walk of chain c from entry i returns for a query k when the
\* proxies give the answers rs in turn: its values, its error and the last
\* entry it called.
RECURSIVE Walk(_, _, _, _)
Walk(c, k, rs, i) ==
    LET ret == Method(k, Head(rs)) IN
    IF \/ ret.err = Nil
       \/ i >= Len(c.rest)
       \/ Len(rs) = 1
       \/ ~c.rest[i + 1].afterAnyErr /\ ~IsNotFound(ret.err)
    THEN [val |-> ret.val, err |-> ret.err, last |-> i]
    ELSE Walk(c, k, Tail(rs), i + 1)

\* C19: no step of a query changes the chain or what the constructor
\* returned; every query starts at entry 0 with fresh result variables,
\* nothing of an earlier query left; and what a query returns is determined
\* by the chain, the query and the answers of the proxies.
C19_QueriesLeaveChain ==
    /\ [][pc # "init" =>
            /\ cl' = cl /\ cerr' = cerr /\ ctor' = ctor /\ goproxy' = goproxy
            /\ (pc \in {"idle", "done"} /\ pc' = "call") =>
                  (pos' = [i |-> 0, j |-> 0] /\ trace' = <<>>
                        /\ res' = Zero /\ err' = Nil)]_vars
    /\ [](pc = "idle" => NoQuery)
    /\ []((pc = "done" /\ trace # <<>>) =>
            [val |-> res, err |-> err, last |-> Len(trace) - 1] = Walk(cl, kind, Answers, 0))

C19_Witness ==
    /\ pc = "done" /\ seps = <<",", "|">> /\ Len(cl.rest) = 2
    /\ Len(trace) = 3 /\ err = Nil
    /\ cl = New(goproxy, hc)

\* After the n-th request of a query with trace tr, loop calls the next entry.
Continues(tr, n) ==
    /\ tr[n].err # Nil
    /\ n <= Len(cl.rest)
    /\ cl.rest[n].afterAnyErr \/ IsNotFound(tr[n].err)

\* Query q has walked as a query does alone: its n-th request went to entry
\* n - 1, it went on after a request exactly when the error of that request
\* and the edge said so, and once returned its values, error and last entry
\* are those of the walk over the answers it received.
WalksAlone(q) ==
    LET me == qs[q]
        n  == Len(me.trace)
    IN  /\ \A m \in 1..n : me.trace[m].i = m - 1
        /\ \A m \in 1..(n - 1) : Continues(me.trace, m)
        /\ me.pc = "call" =>
              /\ me.pos.i = n
              /\ n >= 1 => Continues(me.trace, n)
        /\ me.pc = "done" =>
              /\ ~Continues(me.trace, n)
              /\ me.res = me.trace[n].val
              /\ me.err = me.trace[n].err
              /\ [val |-> me.res, err |-> me.err, last |-> n - 1]
                    = Walk(cl, me.kind, [m \in 1..n |-> me.trace[m].reply], 0)

\* C20: with the requests of two queries on one chain interleaved in every
\* way, each query calls the entries and returns the values and the error
\* that it does alone on the answers it received; a step of one query
\* leaves the variables of the other, and the chain, as they are.
C20_ConcurrentQueriesIndependent ==
    /\ [](\A q \in Queries : WalksAlone(q))
    /\ [][/\ \A q \in Queries : qs'[q] # qs[q] => \A r \in Queries \ {q} : qs'[r] = qs[r]
          /\ pc # "init" => cl' = cl]_vars

C20_Witness ==
    /\ pc = "idle" /\ seps = <<",">> /\ Len(cl.rest) = 1
    /\ qs[1].pc = "done" /\ qs[1].kind = "list" /\ qs[1].err = Nil
    /\ Len(qs[1].trace) = 2
    /\ qs[2].pc = "done" /\ qs[2].kind = "mod" /\ qs[2].err # Nil
    /\ Len(qs[2].trace) = 1 /\ qs[2].trace[1].reply.status = 403

\* The http.Client of entry i of chain c.
EntryClient(c, i) ==
    IF c.type = "Client" THEN SingleAt(c, i).client ELSE ClientAt(c, i).first.client

\* C21: a constructor that returns a chain returns one with a first entry:
\* a proxy whose address is that of the first non-sentinel token of the
\* GOPROXY string or, when New finds none, the default proxy; the address is
\* never "direct", "off" or a token that was skipped.
C21_FirstEntryLive ==
    pc = "idle" =>
        /\ cl # NoClient
        /\ cl.type \in {"Client", "multi"}
        /\ Len(ChainAddresses) >= 1
        /\ IF Len(Live) >= 1
           THEN EntryAddress(cl, 0) = Address(toks[Live[1]])
           ELSE ctor \in {"New", "NewParse"} /\ EntryAddress(cl, 0) = DefaultProxy
        /\ EntryAddress(cl, 0) \notin SentinelTokens

C21_Witness ==
    /\ pc = "idle" /\ ctor = "NewMulti"
    /\ toks = <<<<"off">>, <<>>, <<"b", "/">>, <<"a">>>>
    /\ EntryAddress(cl, 0) = <<"b">>

\* C23: every entry of a chain New built with a non-nil hc, the default
\* proxy included, holds that hc; no entry of a chain built with a nil hc
\* holds http.DefaultClient: each holds an http.Client made for it.
C23_EntriesUseGivenClient ==
    (pc = "idle" /\ ctor \in {"New", "NewParse"}) =>
        \A i \in 0..Len(cl.rest) :
            /\ hc # "nil" => EntryClient(cl, i) = hc
            /\ hc = "nil" => EntryClient(cl, i) = "own"
            /\ hc = "nil" => EntryClient(cl, i) # "default"

C23_Witness ==
    /\ pc = "idle" /\ ctor = "New" /\ hc = "hc1"
    /\ Len(cl.rest) = 2
    /\ \A i \in 0..2 : EntryClient(cl, i) = "hc1"

\* C27: for every GOPROXY string and hc, New with its two scanning loops and
\* New written with Parse return the same Client: the same first entry and
\* the same further entries, in the same order with the same afterAnyErr.
C27_NewAgreesWithParseNew ==
    /\ (pc = "idle" /\ ctor = "New") =>
          /\ cl.first = NewParse(goproxy, hc).first
          /\ cl.rest = NewParse(goproxy, hc).rest
    /\ (pc = "idle" /\ ctor = "NewParse") =>
          /\ cl.first = New(goproxy, hc).first
          /\ cl.rest = New(goproxy, hc).rest

C27_Witness ==
    /\ pc = "idle" /\ ctor = "NewParse"
    /\ toks = <<<<>>, <<"a">>, <<"direct">>, <<"b", "/">>>>
    /\ seps = <<",", "|", ",">>
    /\ cl.rest = <<[client |-> [baseURL |-> <<"b">>, client |-> "own"],
                   afterAnyErr |-> FALSE]>>
    /\ cl = New(goproxy, hc)

\* The string that pairs were parsed from: the strings in order, "|" before
\* one whose afterAnyErr is TRUE and "," before one whose afterAnyErr is FALSE.
RECURSIVE Unparse(_)
Unparse(ps) ==
    IF Len(ps) = 1 THEN ps[1].val
    ELSE Unparse(SubSeq(ps, 1, Len(ps) - 1))
         \o <<IF ps[Len(ps)].afterAnyErr THEN "|" ELSE ",">>
         \o ps[Len(ps)].val

\* C29: the strings Parse yields, written in order with "|" or "," before
\* each one after the first as its afterAnyErr says, are the GOPROXY string;
\* no string yielded has a "," or a "|" in it.
C29_ParseRoundTrip ==
    pc = "afterParse" =>
        /\ Len(parsed) >= 1
        /\ Unparse(parsed) = goproxy
        /\ \A n \in 1..Len(parsed) :
              \A k \in 1..Len(parsed[n].val) : parsed[n].val[k] \notin Separators

C29_Witness ==
    /\ pc = "afterParse"
    /\ goproxy = <<",", "b", "/", "|", "|", "off">>
    /\ Len(parsed) = 4

\* How many times version v occurs in the list vs.
Count(vs, v) == Cardinality({n \in 1..Len(vs) : vs[n] = v})

\* C22: the versions a List query returns with a nil error are in ascending
\* order, whatever the order of the lines of the proxy's answer, and are the
\* versions on those lines, each as many times as it is there.
C22_ListSorted ==
    (pc = "done" /\ kind = "list" /\ err = Nil) =>
        LET sent == trace[Len(trace)].reply.body.vs IN
        /\ res.t = "versions"
        /\ \A m, n \in 1..Len(res.vs) : m < n => res.vs[m] <= res.vs[n]
        /\ Len(res.vs) = Len(sent)
        /\ \A v \in 1..3 : Count(res.vs, v) = Count(sent, v)

C22_Witness ==
    /\ pc = "done" /\ kind = "list" /\ err = Nil
    /\ Len(trace) = 2
    /\ trace[2].reply.body.vs = <<3, 1, 2>>
    /\ res.vs = <<1, 2, 3>>

\* The walk ends with the n-th request of the query, the one to entry n - 1:
\* it succeeded, or entry n - 1 is the last, or it failed with an error that
\* is not not-found and the separator before entry n is ",".
EndsAt(n) ==
    \/ trace[n].err = Nil
    \/ n - 1 = Len(cl.rest)
    \/ ~IsNotFound(trace[n].err) /\ ~cl.rest[n].afterAnyErr

\* C25: in every query the entries called are entries 0 to k, each once and
\* in order, where k is the first entry at which the walk ends: k succeeds,
\* or k is the last entry, or k fails with an error that is not not-found
\* and the separator before entry k + 1 is ","; the separator before entry
\* k itself is not looked at.
C25_AttemptedPrefix ==
    InQuery =>
        /\ \A n \in 1..Len(trace) : trace[n].i = n - 1
        /\ \A k \in 0..Len(cl.rest) :
              Attempted(k) <=> (k < Len(trace) \/ (pc = "call" /\ k = Len(trace)))
        /\ \A n \in 1..(Len(trace) - 1) : ~EndsAt(n)
        /\ pc = "call" => \A n \in 1..Len(trace) : ~EndsAt(n)
        /\ pc = "done" => EndsAt(Len(trace))

C25_Witness ==
    /\ pc = "done" /\ seps = <<"|", ",">> /\ Len(cl.rest) = 2
    /\ Len(trace) = 2
    /\ Answered(1, 403) /\ Answered(2, 403)
    /\ ~Attempted(2)

\* The client the other constructor returns for the same GOPROXY string:
\* NewMulti's for a client made by New, New's for one made by NewMulti.
Counterpart == IF ctor = "New" THEN NewMulti(goproxy, hc).client ELSE New(goproxy, hc)

\* C28: for a GOPROXY string with a proxy URL, a query on the client of
\* NewMulti and the same query on the client of New, the proxies answering
\* alike, send their requests to the same addresses in the same order, end
\* at the same entry and return the same values and the same error.  The
\* counterpart's walk is given one answer more than the query received, a
\* failure, so that it shows where a walk that goes on would go.
C28_NewMultiWalksAsNew ==
    (InQuery /\ Len(Live) >= 1) =>
        LET other == Counterpart
            n     == Len(trace)
        IN  /\ other # NoClient
            /\ \A m \in 1..n :
                  m - 1 <= Len(other.rest) /\ trace[m].url = EntryAddress(other, m - 1)
            /\ pc = "call" =>
                  /\ n <= Len(other.rest)
                  /\ Current.baseURL = EntryAddress(other, n)
                  /\ n >= 1 => Walk(other, kind, Answers \o <<Canceled>>, 0).last = n
            /\ pc = "done" =>
                  /\ Walk(other, kind, Answers \o <<Canceled>>, 0)
                        = [val |-> res, err |-> err, last |-> n - 1]

C28_Witness ==
    /\ pc = "done" /\ ctor = "NewMulti" /\ cl.type = "multi"
    /\ toks = <<<<"a">>, <<"direct">>, <<"b", "/">>>> /\ seps = <<",", "|">>
    /\ Len(trace) = 2 /\ Answered(1, 403) /\ err = Nil
    /\ trace[2].url = <<"b">>

\* The requests of the query whose response body is open.
OpenBodies == {n \in 1..Len(trace) : trace[n].body = "open"}

\* C30: in a Mod or Zip query the body of every response with a status other
\* than 200 is closed when the request returns, so that at most one body is
\* open: that of the 200 response the query ends with and returns to its
\* caller; in a List, Info or Latest query every response body is closed
\* when the request returns.
C30_BodiesClosed ==
    InQuery =>
        /\ \A n \in 1..Len(trace) :
              /\ trace[n].reply.sent <=> trace[n].body # "none"
              /\ (trace[n].reply.sent /\ trace[n].reply.status # 200) =>
                    trace[n].body = "closed"
              /\ kind \in {"list", "info", "latest"} => trace[n].body # "open"
        /\ Cardinality(OpenBodies) <= 1
        /\ \A n \in OpenBodies :
              /\ kind \in {"mod", "zip"}
              /\ n = Len(trace) /\ pc = "done" /\ err = Nil
              /\ res = [t |-> "stream", v |-> trace[n].reply.body.v]
        /\ (pc = "done" /\ err = Nil /\ kind \in {"mod", "zip"}) =>
              OpenBodies = {Len(trace)}

C30_Witness ==
    /\ pc = "done" /\ kind = "zip" /\ err = Nil
    /\ Len(trace) = 3
    /\ trace[1].body = "closed" /\ trace[2].body = "none" /\ trace[3].body = "open"

\* C26: New returns for every GOPROXY string, each iteration of its loops
\* leaving it a shorter string to scan; and, every request returning, every
\* query returns, having made no more requests than the chain has entries.
C26_Terminates ==
    /\ (pc = "init") ~> (pc = "idle")
    /\ (pc = "call") ~> (pc = "done")
    /\ [][scan'.goproxy # scan.goproxy => Len(scan'.goproxy) < Len(scan.goproxy)]_vars
    /\ [](InQuery => /\ Len(trace) <= Len(cl.rest) + 1
                     /\ pc = "call" => Len(trace) <= Len(cl.rest))

C26_Witness ==
    /\ pc = "done" /\ err # Nil
    /\ scan.phase = "returned"
    /\ toks = <<<<"direct">>, <<"a">>, <<"a">>>> /\ seps = <<",", "|">>
    /\ Len(cl.rest) = 1 /\ Len(trace) = 2

\* A step of a subcommand fails: its argument is not in the form the
\* subcommand needs, its query fails, or its result cannot be written.
StepFails(c, a) ==
    \/ c \in {"info", "mod", "zip"} /\ a.form = "malformed"
    \/ a.query = "fail"
    \/ a.out = "fail"

\* The arguments whose step fails, and whether the arguments are as many as
\* the subcommand takes.
FailingArgs == {i \in 1..Len(cli.args) : StepFails(cli.cmd, cli.args[i])}
WrongCount == cli.cmd \in {"mod", "zip"} /\ Len(cli.args) # 1
Elems(s) == {s[i] : i \in 1..Len(s)}

====
